---------------------------- MODULE Spec2Model ----------------------------
(***************************************************************************)
(* Model of src/main.rs of crud-rust: a blocking, single-threaded TCP      *)
(* service that classifies each request by literal prefix, runs one of     *)
(* five handlers against a "users" table and writes the response.          *)
(*                                                                         *)
(* Text is a sequence of Unicode code points.  A Rust String is UTF-8, so  *)
(* String::len is Utf8Len of the sequence, not its Len.                    *)
(***************************************************************************)
EXTENDS Integers, Sequences, FiniteSets, TLC

(***************************************************************************)
(* Bounds of the model.                                                    *)
(***************************************************************************)
\* connections the listener hands to the loop in one run
MaxConns == 3

(***************************************************************************)
(* Text: code points, literals, UTF-8 length.                              *)
(***************************************************************************)
\* printable ASCII, code points 32..95 and 97..126
PrintableLow ==
    " !\"#$%&'()*+,-./0123456789:;<=>?@ABCDEFGHIJKLMNOPQRSTUVWXYZ[\\]^_"

PrintableHigh == "abcdefghijklmnopqrstuvwxyz{|}~"

\* code point of a one-character literal (printable ASCII, CR, LF)
Ord(c) ==
    IF c = "\r" THEN 13
    ELSE IF c = "\n" THEN 10
    ELSE IF \E i \in 1..Len(PrintableLow) : SubSeq(PrintableLow, i, i) = c
    THEN 31 + (CHOOSE i \in 1..Len(PrintableLow) :
                    SubSeq(PrintableLow, i, i) = c)
    ELSE 96 + (CHOOSE i \in 1..Len(PrintableHigh) :
                    SubSeq(PrintableHigh, i, i) = c)

\* the text of a literal
RECURSIVE Chars(_)
Chars(s) ==
    IF Len(s) = 0 THEN <<>>
    ELSE Chars(SubSeq(s, 1, Len(s) - 1)) \o <<Ord(SubSeq(s, Len(s), Len(s)))>>

\* bytes one code point takes in UTF-8
Utf8Width(cp) ==
    IF cp < 128 THEN 1
    ELSE IF cp < 2048 THEN 2
    ELSE IF cp < 65536 THEN 3
    ELSE 4

\* String::len(): the number of bytes
RECURSIVE Utf8Len(_)
Utf8Len(t) ==
    IF t = <<>> THEN 0 ELSE Utf8Width(Head(t)) + Utf8Len(Tail(t))

\* n copies of code point cp
RECURSIVE Rep(_, _)
Rep(cp, n) == IF n = 0 THEN <<>> ELSE <<cp>> \o Rep(cp, n - 1)

\* str::starts_with
StartsWith(t, p) ==
    /\ Len(t) >= Len(p)
    /\ SubSeq(t, 1, Len(p)) = p

\* char::is_whitespace (White_Space code points below U+3001)
IsWhitespace(cp) ==
    \/ cp \in 9..13
    \/ cp \in {32, 133, 160, 5760, 8232, 8233, 8239, 8287, 12288}
    \/ cp \in 8192..8202

\* the text after the last match of sep, matches taken left to right without
\* overlap: str::split(sep).last()
RECURSIVE SplitLast(_, _)
SplitLast(t, sep) ==
    LET hits == {i \in 1..(Len(t) - Len(sep) + 1) :
                    SubSeq(t, i, i + Len(sep) - 1) = sep}
    IN  IF hits = {} THEN t
        ELSE LET i == CHOOSE j \in hits : \A k \in hits : j <= k
             IN  SplitLast(SubSeq(t, i + Len(sep), Len(t)), sep)

\* the n-th (zero-based) segment of t split on the one code point sep, or the
\* empty text when there are fewer segments: split(sep).nth(n).unwrap_or_default()
RECURSIVE SplitNth(_, _, _)
SplitNth(t, sep, n) ==
    LET hits == {i \in 1..Len(t) : t[i] = sep}
    IN  IF hits = {}
        THEN IF n = 0 THEN t ELSE <<>>
        ELSE LET i == CHOOSE j \in hits : \A k \in hits : j <= k
             IN  IF n = 0 THEN SubSeq(t, 1, i - 1)
                 ELSE SplitNth(SubSeq(t, i + 1, Len(t)), sep, n - 1)

\* split_whitespace().next().unwrap_or_default(): the first run of
\* non-whitespace code points, or the empty text
FirstToken(t) ==
    LET starts == {i \in 1..Len(t) : ~IsWhitespace(t[i])}
    IN  IF starts = {} THEN <<>>
        ELSE LET a == CHOOSE j \in starts : \A k \in starts : j <= k
                 ends == {i \in a..Len(t) :
                            i = Len(t) \/ IsWhitespace(t[i + 1])}
                 b == CHOOSE j \in ends : \A k \in ends : j <= k
             IN  SubSeq(t, a, b)

I32Max == 2147483647
I32Min == (0 - I32Max) - 1

IsDigit(cp) == cp \in 48..57

\* i32 accumulation of the digits, most significant first, added for a
\* positive number and subtracted for a negative one as the library does;
\* ok is FALSE once a step leaves the i32 range (checked_mul / checked_add)
RECURSIVE Accumulate(_, _, _)
Accumulate(digits, acc, negative) ==
    IF digits = <<>> THEN [ok |-> TRUE, val |-> acc]
    ELSE LET d == Head(digits) - 48
         IN  IF negative
             THEN IF \/ acc < 0 - (I32Max \div 10)
                     \/ (acc = 0 - (I32Max \div 10) /\ d > 8)
                  THEN [ok |-> FALSE, val |-> 0]
                  ELSE Accumulate(Tail(digits), acc * 10 - d, negative)
             ELSE IF \/ acc > I32Max \div 10
                     \/ (acc = I32Max \div 10 /\ d > 7)
                  THEN [ok |-> FALSE, val |-> 0]
                  ELSE Accumulate(Tail(digits), acc * 10 + d, negative)

\* str::parse::<i32>(): an optional sign, then one or more ASCII digits, the
\* value in the i32 range
ParseI32(t) ==
    LET signed == t /= <<>> /\ t[1] \in {43, 45}
        digits == IF signed THEN Tail(t) ELSE t
    IN  IF /\ digits /= <<>>
           /\ \A i \in 1..Len(digits) : IsDigit(digits[i])
        THEN Accumulate(digits, 0, signed /\ t[1] = 45)
        ELSE [ok |-> FALSE, val |-> 0]

\* the decimal text of an integer (Display for i32)
RECURSIVE NatText(_)
NatText(n) ==
    IF n < 10 THEN <<48 + n>>
    ELSE NatText(n \div 10) \o <<48 + (n % 10)>>

IntText(n) == IF n < 0 THEN <<45>> \o NatText(0 - n) ELSE NatText(n)

(***************************************************************************)
(* JSON text of a User (serde_json) and the texts of the responses.        *)
(***************************************************************************)
\* Option<i32>: None, Some(n)
None == <<>>
Some(n) == <<n>>

\* struct User
User(id, name, email, password) ==
    [id |-> id, name |-> name, email |-> email, password |-> password]

OK_RESPONSE ==
    Chars("HTTP/1.1 200 OK\r\nContent-Type: application/json\r\n\r\n")
NOT_FOUND == Chars("HTTP/1.1 404 NOT FOUND\r\n")
INTERNAL_SERVER_ERROR == Chars("HTTP/1.1 500 INTERNAL SERVER ERROR\r\n")

\* a JSON string: quotes and backslashes escaped, the rest as it is
RECURSIVE JsonEscape(_)
JsonEscape(t) ==
    IF t = <<>> THEN <<>>
    ELSE (IF Head(t) \in {34, 92} THEN <<92, Head(t)>> ELSE <<Head(t)>>)
            \o JsonEscape(Tail(t))

JsonString(t) == <<34>> \o JsonEscape(t) \o <<34>>

KeyId == Chars("\"id\":")
KeyName == Chars("\"name\":")
KeyEmail == Chars("\"email\":")
KeyPassword == Chars("\"password\":")
JsonNull == Chars("null")

\* the name, email and password members, in the struct's order
JsonFields(u) ==
    KeyName \o JsonString(u.name) \o <<44>>
        \o KeyEmail \o JsonString(u.email) \o <<44>>
        \o KeyPassword \o JsonString(u.password)

\* serde_json::to_string(&user): every field, id first, None as null
ToJson(u) ==
    <<123>> \o KeyId \o (IF u.id = None THEN JsonNull ELSE IntText(u.id[1]))
        \o <<44>> \o JsonFields(u) \o <<125>>

\* serde_json::to_string(&users) of a vector
RECURSIVE JoinJson(_)
JoinJson(us) ==
    IF us = <<>> THEN <<>>
    ELSE IF Len(us) = 1 THEN ToJson(us[1])
    ELSE ToJson(us[1]) \o <<44>> \o JoinJson(Tail(us))

ToJsonArray(us) == <<91>> \o JoinJson(us) \o <<93>>

(***************************************************************************)
(* What a client may send: the texts one read can return.                  *)
(***************************************************************************)
BlankLine == Chars("\r\n\r\n")
HttpTail == Chars(" HTTP/1.1\r\nHost: a")

Ann == Chars("Ann")
Bob == Chars("Bob")
AnnMail == Chars("a@x.com")
BobMail == Chars("b@x.com")
\* passwords of 2, 19 and 20 bytes, and one of 10 characters in 20 bytes
PwShort == Chars("pw")
Pw19 == Rep(97, 19)
Pw20 == Rep(98, 20)
PwWide == Rep(233, 10)

\* the users a well-formed body can carry
Payloads ==
    { User(None, Ann, AnnMail, PwShort),
      User(Some(7), Bob, BobMail, Pw20),
      User(None, Bob, AnnMail, Pw19),
      User(None, Ann, BobMail, PwWide) }

\* the body a client sends for a payload: the id member left out when it has
\* none
BodyOf(u) ==
    IF u.id = None THEN <<123>> \o JsonFields(u) \o <<125>> ELSE ToJson(u)

\* bodies that are not a User: empty, a number, an object without password
BadBodies ==
    { <<>>, Chars("5"), Chars("{\"name\":\"Ann\",\"email\":\"a@x.com\"}") }

\* a request: the request line, the rest of the head, a blank line, the body
Http(line, body) == Chars(line) \o HttpTail \o BlankLine \o body

ListRequests ==
    { Chars("GET /users"), Http("GET /users", <<>>), Http("GET /users/1", <<>>),
      Http("GET /users/2", <<>>), Http("GET /users/abc", <<>>),
      Http("GET /usersX", <<>>) }

PostRequests ==
    { Http("POST /users", b) : b \in {BodyOf(u) : u \in Payloads} \cup BadBodies }

PutRequests ==
    { Http("PUT /users/1", BodyOf(u)) : u \in Payloads }
        \cup { Http("PUT /users/2", BodyOf(u)) : u \in Payloads }
        \cup { Http("PUT /users/1", b) : b \in BadBodies }
        \cup { Http("PUT /users/abc", BodyOf(User(None, Ann, AnnMail, PwShort))),
               Chars("PUT /users/") \o BlankLine \o Chars("5") }

DeleteRequests ==
    { Http("DELETE /users/1", <<>>), Http("DELETE /users/2", <<>>),
      Http("DELETE /users/+1", <<>>), Http("DELETE /users/abc", <<>>),
      Http("DELETE /users/1.5", <<>>), Http("DELETE /users/2147483648", <<>>),
      Http("DELETE /users/", <<>>), Chars("DELETE /users/"),
      Chars("DELETE /users/") \o BlankLine \o Chars("2") }

OtherRequests ==
    { <<>>, Chars("GET /user"), Http("get /users", <<>>), Http(" GET /users", <<>>),
      Http("POST /user", BodyOf(User(None, Ann, AnnMail, PwShort))),
      Http("PUT /users", BodyOf(User(None, Ann, AnnMail, PwShort))),
      Http("DELETE /users", <<>>), Http("PATCH /users/1", <<>>),
      Http("GET /", <<>>) }

Requests ==
    ListRequests \cup PostRequests \cup PutRequests \cup DeleteRequests
        \cup OtherRequests

(***************************************************************************)
(* get_id and get_user_request_body.                                       *)
(***************************************************************************)
\* get_id: the third segment of the text split on "/", up to its first
\* whitespace; empty when a step finds nothing
get_id(request) == FirstToken(SplitNth(request, 47, 2))

\* the texts that are a User in JSON, each with the User it is
Decodable ==
    { [text |-> BodyOf(u), user |-> u] : u \in Payloads }
        \cup { [text |-> ToJson(u), user |-> u] : u \in Payloads }

\* serde_json::from_str::<User> on the text after the last blank line: Ok
\* with the user for the body of a payload, Err for every other body
get_user_request_body(request) ==
    LET body == SplitLast(request, BlankLine)
    IN  IF \E d \in Decodable : d.text = body
        THEN [ok |-> TRUE, user |-> (CHOOSE d \in Decodable : d.text = body).user]
        ELSE [ok |-> FALSE, user |-> User(None, <<>>, <<>>, <<>>)]

(***************************************************************************)
(* The users table: id serial primary key, name, email, password.          *)
(* A row also records, in assigned, the value the sequence gave it.        *)
(***************************************************************************)
\* the insert naming the id column with the body's id when it has one
InsertUserBodyId(table, seq, user) ==
    table \cup { [id |-> IF user.id = None THEN seq ELSE user.id[1],
                  name |-> user.name, email |-> user.email,
                  password |-> user.password, assigned |-> seq] }

\* INSERT INTO users (name, email, password): the id is the sequence's next
\* value
InsertUser(table, seq, user) ==
    table \cup { [id |-> seq, name |-> user.name, email |-> user.email,
                  password |-> user.password, assigned |-> seq] }

\* an update that inserts the row when no row has the id
UpdateUserUpsert(table, id, name, email, password) ==
    IF \E r \in table : r.id = id
    THEN { IF r.id = id
           THEN [r EXCEPT !.name = name, !.email = email, !.password = password]
           ELSE r : r \in table }
    ELSE table \cup { [id |-> id, name |-> name, email |-> email,
                       password |-> password, assigned |-> id] }

\* UPDATE users SET name, email, password WHERE id
UpdateUser(table, id, name, email, password) ==
    { IF r.id = id
      THEN [r EXCEPT !.name = name, !.email = email, !.password = password]
      ELSE r : r \in table }

\* DELETE FROM users WHERE id
DeleteUser(table, id) == { r \in table : r.id /= id }

\* the User a row is read into
RowUser(r) == User(Some(r.id), r.name, r.email, r.password)

\* the orders SELECT * FROM users may return the rows in
RowOrders(table) ==
    { o \in [1..Cardinality(table) -> table] :
        \A i, j \in 1..Cardinality(table) : i /= j => o[i] /= o[j] }

(***************************************************************************)
(* bcrypt::hash(password, DEFAULT_COST): 60 characters, "$2b$12$", the     *)
(* salt in 22 characters and the digest in 31.  The digest stands for the  *)
(* library's: a character chosen by the password and the salt.             *)
(***************************************************************************)
BcryptPrefix == Chars("$2b$12$")
Salts == { Rep(65, 22), Rep(122, 22) }

RECURSIVE Sum(_)
Sum(t) == IF t = <<>> THEN 0 ELSE Head(t) + Sum(Tail(t))

Bcrypt(password, salt) ==
    BcryptPrefix \o salt \o Rep(65 + ((Sum(password) + salt[1]) % 26), 31)

HashThreshold == 20

\* the threshold taken in characters
StoredPasswordByChars(password, salt) ==
    IF Len(password) < HashThreshold THEN Bcrypt(password, salt)
    ELSE password

\* the password the update stores: hashed when it is shorter than the
\* threshold, in bytes, and as supplied otherwise
StoredPassword(password, salt) ==
    IF Utf8Len(password) < HashThreshold THEN Bcrypt(password, salt)
    ELSE password

(***************************************************************************)
(* The handlers.  Each takes the request, the table, the sequence and what *)
(* the environment decides (e.connect: Client::connect succeeds; e.stmt:   *)
(* the statement succeeds; e.salt: bcrypt's salt; e.order: the order of    *)
(* the rows of a SELECT) and gives the handler's outcome: the pair it      *)
(* returns, or a panic, with the table it leaves and the store calls made. *)
(***************************************************************************)
UserNotFound == Chars("User not found")
NotFoundBody == Chars("Not Found")
ErrorBody == Chars("Error")
ErrorCreating == Chars("Error creating user")
ErrorUpdating == Chars("Error updating user")
ErrorDeleting == Chars("Error deleting user")
UserUpdated == Chars("User updated")
UserDeleted == Chars("User deleted")

Returns(status, content, table, seq, connects, statements, faults) ==
    [panicked |-> FALSE, status |-> status, content |-> content,
     rows |-> table, nextId |-> seq, connects |-> connects,
     statements |-> statements, faults |-> faults]

\* an unwrap() of an Err: the thread, here the process, ends
Panics(table, seq, connects, statements, faults) ==
    [panicked |-> TRUE, status |-> <<>>, content |-> <<>>,
     rows |-> table, nextId |-> seq, connects |-> connects,
     statements |-> statements, faults |-> faults]

handle_get_all_users_request(table, seq, e) ==
    IF ~e.connect
    THEN Returns(INTERNAL_SERVER_ERROR, ErrorBody, table, seq, 1, 0, {"connect"})
    ELSE IF ~e.stmt
    THEN Panics(table, seq, 1, 1, {"statement"})
    ELSE Returns(OK_RESPONSE,
                 ToJsonArray([i \in 1..Len(e.order) |-> RowUser(e.order[i])]),
                 table, seq, 1, 1, {})

handle_get_request(request, table, seq, e) ==
    LET id == ParseI32(get_id(request))
        found == {r \in table : r.id = id.val}
    IN  IF ~id.ok THEN Panics(table, seq, 0, 0, {"parse"})
        ELSE IF ~e.connect
        THEN Returns(INTERNAL_SERVER_ERROR, ErrorBody, table, seq, 1, 0,
                     {"connect"})
        ELSE IF ~e.stmt
        THEN Returns(NOT_FOUND, UserNotFound, table, seq, 1, 1, {"statement"})
        ELSE IF Cardinality(found) /= 1
        THEN Returns(NOT_FOUND, UserNotFound, table, seq, 1, 1, {})
        ELSE Returns(OK_RESPONSE, ToJson(RowUser(CHOOSE r \in found : TRUE)),
                     table, seq, 1, 1, {})

handle_post_request(request, table, seq, e) ==
    LET body == get_user_request_body(request)
        faults == (IF body.ok THEN {} ELSE {"decode"})
                    \cup (IF e.connect THEN {} ELSE {"connect"})
    IN  IF ~(body.ok /\ e.connect)
        THEN Returns(INTERNAL_SERVER_ERROR, ErrorCreating, table, seq, 1, 0,
                     faults)
        ELSE IF ~e.stmt
        THEN Panics(table, seq, 1, 1, {"statement"})
        ELSE Returns(OK_RESPONSE, ToJson(body.user),
                     InsertUser(table, seq, body.user), seq + 1, 1, 1, {})

handle_put_request(request, table, seq, e) ==
    LET id == ParseI32(get_id(request))
        body == get_user_request_body(request)
        faults == (IF body.ok THEN {} ELSE {"decode"})
                    \cup (IF e.connect THEN {} ELSE {"connect"})
    IN  IF ~id.ok THEN Panics(table, seq, 0, 0, {"parse"})
        ELSE IF ~(body.ok /\ e.connect)
        THEN Returns(INTERNAL_SERVER_ERROR, ErrorUpdating, table, seq, 1, 0,
                     faults)
        ELSE IF ~e.stmt
        THEN Panics(table, seq, 1, 1, {"statement"})
        ELSE Returns(OK_RESPONSE, UserUpdated,
                     UpdateUser(table, id.val, body.user.name, body.user.email,
                                StoredPassword(body.user.password, e.salt)),
                     seq, 1, 1, {})

handle_delete_request(request, table, seq, e) ==
    LET id == ParseI32(get_id(request))
        left == DeleteUser(table, id.val)
    IN  IF ~id.ok THEN Panics(table, seq, 0, 0, {"parse"})
        ELSE IF ~e.connect
        THEN Returns(INTERNAL_SERVER_ERROR, ErrorDeleting, table, seq, 1, 0,
                     {"connect"})
        ELSE IF ~e.stmt
        THEN Panics(table, seq, 1, 1, {"statement"})
        ELSE IF Cardinality(table) - Cardinality(left) = 0
        THEN Returns(NOT_FOUND, UserNotFound, left, seq, 1, 1, {})
        ELSE Returns(OK_RESPONSE, UserDeleted, left, seq, 1, 1, {})

(***************************************************************************)
(* handle_client's match: the arms in the order they are written.          *)
(***************************************************************************)
GetUsers == Chars("GET /users")
GetUsersSlash == Chars("GET /users/")
PostUsers == Chars("POST /users")
PutUsersSlash == Chars("PUT /users/")
DeleteUsersSlash == Chars("DELETE /users/")

\* the delete arm guarded by "DELETE /users", without the final slash
RouteLoose(r) ==
    IF StartsWith(r, GetUsers) THEN "list"
    ELSE IF StartsWith(r, GetUsersSlash) THEN "get"
    ELSE IF StartsWith(r, PostUsers) THEN "post"
    ELSE IF StartsWith(r, PutUsersSlash) THEN "put"
    ELSE IF StartsWith(r, Chars("DELETE /users")) THEN "delete"
    ELSE "fallback"

\* the arm the match takes: the first whose guard holds
Route(r) ==
    IF StartsWith(r, GetUsers) THEN "list"
    ELSE IF StartsWith(r, GetUsersSlash) THEN "get"
    ELSE IF StartsWith(r, PostUsers) THEN "post"
    ELSE IF StartsWith(r, PutUsersSlash) THEN "put"
    ELSE IF StartsWith(r, DeleteUsersSlash) THEN "delete"
    ELSE "fallback"

\* the arm's value
Handle(arm, r, table, seq, e) ==
    CASE arm = "list" -> handle_get_all_users_request(table, seq, e)
      [] arm = "get" -> handle_get_request(r, table, seq, e)
      [] arm = "post" -> handle_post_request(r, table, seq, e)
      [] arm = "put" -> handle_put_request(r, table, seq, e)
      [] arm = "delete" -> handle_delete_request(r, table, seq, e)
      [] OTHER -> Returns(NOT_FOUND, NotFoundBody, table, seq, 0, 0, {})

\* what the environment may decide for an arm
Decisions(arm, table) ==
    [connect : BOOLEAN, stmt : BOOLEAN,
     salt : IF arm = "put" THEN Salts ELSE {<<>>},
     order : IF arm = "list" THEN RowOrders(table) ELSE {<<>>}]

(***************************************************************************)
(* State.                                                                  *)
(***************************************************************************)
VARIABLES
    pc,          \* where main is: "accept", "read", "dispatch", "write",
                 \* "panicked"
    conns,       \* connections listener.incoming() has yielded, Ok or Err
    accepted,    \* the connections incoming() yielded Ok for
    unread,      \* the accepted connections whose read failed
    request,     \* the text read from the current connection
    route,       \* the arm of the match taken for it, "none" before the match
    status,      \* the status line the handler returned
    content,     \* the body the handler returned
    rows,        \* the users table
    nextId,      \* the next value of the table's id sequence
    connects,    \* Client::connect calls made for the current request
    statements,  \* statements issued for the current request
    faults,      \* what failed while the current request was handled
    answered,    \* the connections a response was written to
    deleted      \* the ids a delete answered 200 for

vars ==
    <<pc, conns, accepted, unread, request, route, status, content, rows, nextId, connects,
      statements, faults, answered, deleted>>

\* the tables set_databse may find: CREATE TABLE IF NOT EXISTS makes an empty
\* one, or keeps the one an earlier run left (here a row with id 2, its
\* password updated, after a row with id 1 was deleted)
StartTables ==
    { [rows |-> {}, nextId |-> 1],
      [rows |-> { [id |-> 2, name |-> Bob, email |-> BobMail,
                   password |-> Bcrypt(PwShort, Rep(65, 22)), assigned |-> 2] },
       nextId |-> 3] }

\* after set_databse and bind: the table exists, the loop waits
Init ==
    /\ pc = "accept"
    /\ conns = 0
    /\ accepted = {}
    /\ unread = {}
    /\ request = <<>>
    /\ route = "none"
    /\ status = <<>>
    /\ content = <<>>
    /\ \E t \in StartTables : rows = t.rows /\ nextId = t.nextId
    /\ connects = 0
    /\ statements = 0
    /\ faults = {}
    /\ answered = {}
    /\ deleted = {}

\* handle_client handed to another thread: the loop accepts while a request
\* is in flight
AtAcceptAnytime == pc \in {"accept", "read", "dispatch", "write"}

\* the loop is at listener.incoming(): handle_client has returned
AtAccept == pc = "accept"

\* incoming() yields Ok(stream): handle_client is called with it
AcceptOk ==
    /\ AtAccept
    /\ conns < MaxConns
    /\ conns' = conns + 1
    /\ accepted' = accepted \cup {conns + 1}
    /\ pc' = "read"
    /\ request' = <<>>
    /\ route' = "none"
    /\ status' = <<>>
    /\ content' = <<>>
    /\ connects' = 0
    /\ statements' = 0
    /\ faults' = {}
    /\ UNCHANGED <<unread, rows, nextId, answered, deleted>>

\* incoming() yields Err: it is printed and the loop goes on
AcceptErr ==
    /\ AtAccept
    /\ conns < MaxConns
    /\ conns' = conns + 1
    /\ UNCHANGED <<pc, accepted, unread, request, route, status, content, rows, nextId,
                   connects, statements, faults, answered, deleted>>

\* stream.read gives Ok(size): the text is the lossy decoding of the bytes
ReadOk ==
    /\ pc = "read"
    /\ \E r \in Requests : request' = r
    /\ pc' = "dispatch"
    /\ UNCHANGED <<conns, accepted, unread, route, status, content, rows, nextId,
                   connects, statements, faults, answered, deleted>>

\* stream.read gives Err: it is printed, handle_client returns, the stream is
\* dropped
ReadErr ==
    /\ pc = "read"
    /\ pc' = "accept"
    /\ unread' = unread \cup {conns}
    /\ UNCHANGED <<conns, accepted, request, route, status, content, rows, nextId,
                   connects, statements, faults, answered, deleted>>

\* the match of handle_client and the handler it calls, store calls included
Dispatch ==
    /\ pc = "dispatch"
    /\ \E arm \in {Route(request)} :
        \E o \in {Handle(arm, request, rows, nextId, e) :
                    e \in Decisions(arm, rows)} :
            /\ route' = arm
            /\ pc' = IF o.panicked THEN "panicked" ELSE "write"
            /\ status' = o.status
            /\ content' = o.content
            /\ rows' = o.rows
            /\ nextId' = o.nextId
            /\ connects' = o.connects
            /\ statements' = o.statements
            /\ faults' = o.faults
            /\ deleted' = IF arm = "delete" /\ o.status = OK_RESPONSE
                          THEN deleted \cup {ParseI32(get_id(request)).val}
                          ELSE deleted
    /\ UNCHANGED <<conns, accepted, unread, request, answered>>

\* stream.write gives Ok: handle_client returns and the stream is dropped
WriteOk ==
    /\ pc = "write"
    /\ pc' = "accept"
    /\ answered' = answered \cup {conns}
    /\ UNCHANGED <<conns, accepted, unread, request, route, status, content, rows,
                   nextId, connects, statements, faults, deleted>>

\* stream.write gives Err: the unwrap panics
WriteErr ==
    /\ pc = "write"
    /\ pc' = "panicked"
    /\ faults' = faults \cup {"write"}
    /\ UNCHANGED <<conns, accepted, unread, request, route, status, content, rows,
                   nextId, connects, statements, answered, deleted>>

Next ==
    \/ AcceptOk
    \/ AcceptErr
    \/ ReadOk
    \/ ReadErr
    \/ Dispatch
    \/ WriteOk
    \/ WriteErr

Spec == Init /\ [][Next]_vars

(***************************************************************************)
(* Properties.                                                             *)
(***************************************************************************)
\* the match has run for the current request
Handled == route /= "none"

\* the connections accepted and neither answered nor given up on a failed read
InFlight == accepted \ (answered \cup unread)

FivePrefixes ==
    {GetUsers, GetUsersSlash, PostUsers, PutUsersSlash, DeleteUsersSlash}

MatchesAPrefix(r) == \E p \in FivePrefixes : StartsWith(r, p)

\* the id a request names in its path
PathId(r) == ParseI32(get_id(r))

\* a Dispatch step whose handler returned and met no failure
HandledCleanly == pc = "dispatch" /\ pc' = "write" /\ faults' = {}

\* C1: every text that begins with "GET /users/" is handled by the get-by-id
\* handler, and the list-all handler is taken only for a text that begins with
\* "GET /users" and not with "GET /users/".
C1_GetByIdNotShadowed ==
    Handled =>
        /\ StartsWith(request, GetUsersSlash) => route = "get"
        /\ route = "list" =>
            StartsWith(request, GetUsers) /\ ~StartsWith(request, GetUsersSlash)

IdPrefix == Chars("{\"id\":")
NullIdPrefix == Chars("{\"id\":null")

\* C2: the User a POST of a valid payload is answered with has a non-null id,
\* and a GET /users/{id} of a stored row answers with that row, whose name and
\* email are the ones created.
C2_CreateThenGet ==
    /\ (StartsWith(request, PostUsers) /\ Handled /\ status = OK_RESPONSE) =>
            /\ StartsWith(content, IdPrefix)
            /\ ~StartsWith(content, NullIdPrefix)
    /\ (/\ StartsWith(request, GetUsersSlash)
        /\ Handled
        /\ faults = {}
        /\ PathId(request).ok
        /\ \E r \in rows : r.id = PathId(request).val) =>
            /\ status = OK_RESPONSE
            /\ \E r \in rows :
                /\ r.id = PathId(request).val
                /\ content = ToJson(RowUser(r))

\* C3: a DELETE of an integer id answers 404 "User not found" and leaves the
\* table as it was when no row has the id; when a row has it, it answers 200
\* "User deleted" and removes the row, and a later GET /users/{id} for that id
\* answers 404.
C3_DeleteThenGet ==
    [][ HandledCleanly =>
          /\ (StartsWith(request, DeleteUsersSlash) /\ PathId(request).ok) =>
                IF \E r \in rows : r.id = PathId(request).val
                THEN /\ status' = OK_RESPONSE
                     /\ content' = UserDeleted
                     /\ rows' = {r \in rows : r.id /= PathId(request).val}
                ELSE /\ status' = NOT_FOUND
                     /\ content' = UserNotFound
                     /\ rows' = rows
          /\ (/\ StartsWith(request, GetUsersSlash)
              /\ PathId(request).ok
              /\ PathId(request).val \in deleted) =>
                status' = NOT_FOUND /\ content' = UserNotFound
      ]_vars

\* the frame and the answer of an update of an existing row: name and email
\* as supplied, no id touched, 200 "User updated"
UpdateFrame(u, id) ==
    /\ status' = OK_RESPONSE
    /\ content' = UserUpdated
    /\ {r.id : r \in rows'} = {r.id : r \in rows}
    /\ \A r \in rows' : r.id /= id => r \in rows
    /\ \E r \in rows' : r.id = id /\ r.name = u.name /\ r.email = u.email

\* a PUT /users/{id} of a valid body on an existing id, handled with the store
\* answering
UpdatesARow ==
    /\ HandledCleanly
    /\ StartsWith(request, PutUsersSlash)
    /\ PathId(request).ok
    /\ get_user_request_body(request).ok
    /\ \E r \in rows : r.id = PathId(request).val

IsHashOf(stored, password) == \E salt \in Salts : stored = Bcrypt(password, salt)

\* C4 as stated: the threshold counts characters.  A password of fewer than
\* 20 characters is stored hashed, one of 20 or more as supplied.
C4_ThresholdInCharacters ==
    [][ UpdatesARow =>
          LET u == get_user_request_body(request).user
              id == PathId(request).val
          IN  /\ UpdateFrame(u, id)
              /\ \A r \in rows' : r.id = id =>
                    IF Len(u.password) < HashThreshold
                    THEN r.password /= u.password
                            /\ IsHashOf(r.password, u.password)
                    ELSE r.password = u.password
      ]_vars

\* C4 amended: the threshold counts the bytes of the password's UTF-8 text.
\* A password of fewer than 20 bytes is stored hashed, one of 20 bytes or more
\* as supplied; name and email are the supplied ones, the id is unchanged and
\* the answer is 200 "User updated".
C4_ThresholdInBytes ==
    [][ UpdatesARow =>
          LET u == get_user_request_body(request).user
              id == PathId(request).val
          IN  /\ UpdateFrame(u, id)
              /\ \A r \in rows' : r.id = id =>
                    IF Utf8Len(u.password) < HashThreshold
                    THEN r.password /= u.password
                            /\ IsHashOf(r.password, u.password)
                    ELSE r.password = u.password
      ]_vars

\* an update has stored a password of 10 characters in 20 bytes as supplied
C4_Witness ==
    /\ route = "put"
    /\ status = OK_RESPONSE
    /\ get_user_request_body(request).user.password = PwWide
    /\ \E r \in rows : r.id = PathId(request).val /\ r.password = PwWide

\* C5: a text that begins with none of the five prefixes is answered 404
\* "Not Found" without any store call, and the fallback arm is taken for no
\* text that begins with one of them.
C5_Fallback ==
    Handled =>
        /\ ~MatchesAPrefix(request) =>
            /\ status = NOT_FOUND
            /\ content = NotFoundBody
            /\ connects = 0
            /\ statements = 0
        /\ route = "fallback" => ~MatchesAPrefix(request)

\* "DELETE /users", a near miss of the delete prefix, has been answered by the
\* fallback arm
C5_Witness ==
    /\ route = "fallback"
    /\ StartsWith(request, Chars("DELETE /users"))
    /\ status = NOT_FOUND
    /\ content = NotFoundBody
    /\ conns \in answered

\* C6: a connection failure, a failed statement or a body that does not decode
\* never escapes the handler: the handler returns the 500 pair.
C6_FailuresBecome500 ==
    (Handled /\ faults \cap {"connect", "statement", "decode"} /= {}) =>
        /\ status = INTERNAL_SERVER_ERROR
        /\ "write" \in faults \/ pc /= "panicked"

\* C7: a GET, PUT or DELETE of /users/{x} whose x is no integer is fatal: the
\* process ends with no response written and no store call made.  (Runs in
\* which the store fails are left aside.)
C7_BadIdIsFatal ==
    (/\ Handled
     /\ faults \subseteq {"parse"}
     /\ \E p \in {GetUsersSlash, PutUsersSlash, DeleteUsersSlash} :
            StartsWith(request, p)
     /\ ~PathId(request).ok) =>
        /\ pc = "panicked"
        /\ conns \notin answered
        /\ connects = 0
        /\ statements = 0

\* C8: one connection at a time.  A connection is accepted only when every
\* earlier one has been answered or its read has failed; store calls are made
\* only for the one connection in flight; a failed accept and a failed read
\* write no response and leave the loop at accept.
C8_OneAtATime ==
    /\ [][ /\ Cardinality(InFlight') <= 1
           /\ accepted' /= accepted =>
               /\ InFlight = {}
               /\ InFlight' = {conns'}
           /\ (connects' > connects \/ statements' > statements \/ rows' /= rows) =>
               InFlight' = {conns'} /\ InFlight = InFlight'
           /\ (pc = "accept" /\ accepted' = accepted) =>
               pc' = "accept" /\ answered' = answered
           /\ (pc = "read" /\ pc' /= "dispatch") =>
               /\ pc' = "accept"
               /\ answered' = answered
               /\ InFlight' = {}
         ]_vars
    /\ []((pc = "accept" /\ conns < MaxConns) => ENABLED AcceptOk)

\* a connection is being handled after an earlier one was answered and another
\* one's read failed
C8_Witness ==
    /\ pc = "write"
    /\ connects = 1
    /\ answered /= {}
    /\ unread /= {}
    /\ InFlight = {conns}

\* C9: no two rows share an id, a row keeps the id the sequence gave it when
\* it was created, and a new row's id is the sequence's next value, whatever
\* the body or the path says.
C9_IdsUniqueAndStable ==
    [][ /\ \A r, q \in rows' : r.id = q.id => r = q
        /\ \A r \in rows' : r.id = r.assigned
        /\ \A r \in rows' :
            IF \E q \in rows : q.assigned = r.assigned
            THEN \E q \in rows : q.assigned = r.assigned /\ q.id = r.id
            ELSE r.id = nextId /\ nextId' = nextId + 1
      ]_vars

\* a row created from a body that carried id 7 holds another id, beside a
\* second row, after an update
C9_Witness ==
    /\ route = "put"
    /\ status = OK_RESPONSE
    /\ Cardinality(rows) = 2
    /\ \E r, q \in rows :
        /\ r /= q
        /\ r.name = Bob /\ r.email = BobMail /\ r.password = Pw20
        /\ r.id /= 7
        /\ q.id = PathId(request).val

\* C10: the rows change only in the handling of a POST, PUT or DELETE that is
\* answered 200; a PUT or DELETE that names an id with no row changes nothing.
C10_Frame ==
    [][ /\ rows' /= rows =>
            /\ pc = "dispatch"
            /\ \E p \in {PostUsers, PutUsersSlash, DeleteUsersSlash} :
                    StartsWith(request, p)
            /\ status' = OK_RESPONSE
        /\ (/\ pc = "dispatch"
            /\ \E p \in {PutUsersSlash, DeleteUsersSlash} : StartsWith(request, p)
            /\ PathId(request).ok
            /\ ~\E r \in rows : r.id = PathId(request).val) =>
                rows' = rows
      ]_vars

\* a PUT that names an id with no row was answered 200 beside a table that
\* holds a row
C10_Witness ==
    /\ route = "put"
    /\ status = OK_RESPONSE
    /\ rows /= {}
    /\ ~\E r \in rows : r.id = PathId(request).val

=============================================================================
